---- MODULE Spec2Model ----
(***************************************************************************)
(* A model of src/main.py: the Cloud Functions entry point `main` that     *)
(* mirrors a blog's post URLs into the Firestore collection                *)
(* url_notifications, selects the BATCH_SIZE records with the oldest       *)
(* last_sent, notifies the indexing API for each, stamps last_sent on a    *)
(* 200 answer and mails a summary.                                         *)
(*                                                                         *)
(* Text is modelled as sequences of character codes.  A Firestore document *)
(* is a function from field names to values, so that a missing field is a  *)
(* name outside its DOMAIN, as `"last_sent" not in data` reads it.         *)
(* The server clock `now` is logical: every commit that writes             *)
(* SERVER_TIMESTAMP is strictly later than every earlier commit.           *)
(* A Firestore query ordered by a field returns only the documents that    *)
(* have the field, ties in the field being broken by document id.          *)
(* The blog's post list and the process environment are fixed within a     *)
(* behaviour; non-200 answers and uncaught exceptions together number at   *)
(* most MaxFailures.                                                       *)
(***************************************************************************)
EXTENDS Integers, Sequences, FiniteSets, TLC

VARIABLES
    environ,    \* os.environ, restricted to the five names main reads
    blog,       \* the posts the content API lists, as a sequence of URLs
    store,      \* collection url_notifications: document id -> document data
    now,        \* the server clock
    pc,         \* where main is
    runs,       \* how many times main has been invoked
    pageToken,  \* register_blog_urls_to_firestore's page_token (pages served)
    pending,    \* main's pending_docs: the snapshots the query returned
    idx,        \* position of main's for loop in pending_docs
    results,    \* main's results list
    result,     \* what main returned
    calls,      \* outbound calls made by the current run, by kind
    mail,       \* the report mail of the current run
    failures,   \* non-200 answers and exceptions so far (at most MaxFailures)
    runStart,   \* the server clock when the current run began
    runLog,     \* document ids notified in the current run: [ok, failed]
    prevLog,    \* runLog of the run before
    lastOk,     \* document id -> the last run that notified it with a 200
    response,   \* the indexing API's latest answer
    store0      \* the store as it was when the current run began

vars == <<environ, blog, store, now, pc, runs, pageToken, pending, idx, results,
          result, calls, mail, failures, runStart, runLog, prevLog, lastOk,
          response, store0>>

----------------------------------------------------------------------------
(* Bounds of the model *)

NumUrls == 6
MaxRuns == 2
MaxMissing == 1
MaxFailures == 1
PageSize == 2
MaxRotRuns == 4
NumTracked == 11

(* Program constants *)

BATCH_SIZE == 5
SLEEP_SECONDS == 10

----------------------------------------------------------------------------
(* Text *)

RECURSIVE Digits(_)
Digits(n) == IF n < 10 THEN <<48 + n>> ELSE Digits(n \div 10) \o <<48 + (n % 10)>>

\* The URL "u<i>".
Url(i) == <<117>> \o Digits(i)

Urls == {Url(i) : i \in 1..NumUrls}

\* str.encode("utf-8") of one code point (up to three bytes).
Utf8Char(c) ==
    IF c < 128 THEN <<c>>
    ELSE IF c < 2048 THEN <<192 + (c \div 64), 128 + (c % 64)>>
    ELSE <<224 + (c \div 4096), 128 + ((c \div 64) % 64), 128 + (c % 64)>>

RECURSIVE Utf8(_)
Utf8(s) == IF s = <<>> THEN <<>> ELSE Utf8Char(Head(s)) \o Utf8(Tail(s))

\* The character code of a sextet in the URL-safe base64 alphabet
\* A-Z a-z 0-9 - _
B64Char(n) ==
    IF n < 26 THEN 65 + n
    ELSE IF n < 52 THEN 97 + (n - 26)
    ELSE IF n < 62 THEN 48 + (n - 52)
    ELSE IF n = 62 THEN 45
    ELSE 95

RECURSIVE urlsafe_b64encode(_)
urlsafe_b64encode(b) ==
    IF Len(b) = 0 THEN <<>>
    ELSE IF Len(b) = 1 THEN
        <<B64Char(b[1] \div 4), B64Char((b[1] % 4) * 16), 61, 61>>
    ELSE IF Len(b) = 2 THEN
        <<B64Char(b[1] \div 4),
          B64Char((b[1] % 4) * 16 + (b[2] \div 16)),
          B64Char((b[2] % 16) * 4), 61>>
    ELSE
        <<B64Char(b[1] \div 4),
          B64Char((b[1] % 4) * 16 + (b[2] \div 16)),
          B64Char((b[2] % 16) * 4 + (b[3] \div 64)),
          B64Char(b[3] % 64)>>
        \o urlsafe_b64encode(SubSeq(b, 4, Len(b)))

encode_doc_id(url) == urlsafe_b64encode(Utf8(url))

\* Document ids are ordered as strings, character by character.
RECURSIVE LexLess(_, _)
LexLess(s, t) ==
    IF t = <<>> THEN FALSE
    ELSE IF s = <<>> THEN TRUE
    ELSE IF Head(s) # Head(t) THEN Head(s) < Head(t)
    ELSE LexLess(Tail(s), Tail(t))

----------------------------------------------------------------------------
(* The document store *)

HasField(data, f) == f \in DOMAIN data

\* DocumentReference.set(fields): the document becomes exactly `fields`.
DocSet(st, id, fields) ==
    [d \in DOMAIN st \cup {id} |-> IF d = id THEN fields ELSE st[d]]

\* DocMerge without merge: the document is replaced by the one field.
DocMerge_Replace(st, id, f, v) == DocSet(st, id, [x \in {f} |-> v])

\* DocumentReference.set({f: v}, merge=True) and, on an existing document,
\* DocumentReference.update({f: v}): field f is written, the others are kept.
DocMerge(st, id, f, v) ==
    LET old == IF id \in DOMAIN st THEN st[id] ELSE [x \in {} |-> 0]
    IN  DocSet(st, id, [x \in DOMAIN old \cup {f} |-> IF x = f THEN v ELSE old[x]])

\* firestore.SERVER_TIMESTAMP of a commit made when the clock reads t.
ServerTimestamp(t) == t + 1

\* order_by("last_sent"): ascending by the field, ties by document id.
Before(st, a, b) ==
    \/ st[a]["last_sent"] < st[b]["last_sent"]
    \/ st[a]["last_sent"] = st[b]["last_sent"] /\ LexLess(a, b)

RECURSIVE FirstN(_, _, _)
FirstN(st, ids, n) ==
    IF n = 0 \/ ids = {} THEN <<>>
    ELSE LET m == CHOOSE a \in ids : \A b \in ids \ {a} : Before(st, a, b)
         IN  <<[id |-> m, data |-> st[m]]>> \o FirstN(st, ids \ {m}, n - 1)

RECURSIVE LastN(_, _, _)
LastN(st, ids, n) ==
    IF n = 0 \/ ids = {} THEN <<>>
    ELSE LET m == CHOOSE a \in ids : \A b \in ids \ {a} : Before(st, b, a)
         IN  <<[id |-> m, data |-> st[m]]>> \o LastN(st, ids \ {m}, n - 1)

\* A query ordered by a field returns only the documents that have the field.
Ordered(st) == {d \in DOMAIN st : HasField(st[d], "last_sent")}

\* get_pending_url_docs ordering by last_sent descending.
get_pending_url_docs_Newest(st, batch_size) ==
    LastN(st, {d \in DOMAIN st : HasField(st[d], "last_sent")}, batch_size)

\* get_pending_url_docs without limit(batch_size).
get_pending_url_docs_NoLimit(st, batch_size) ==
    FirstN(st, {d \in DOMAIN st : HasField(st[d], "last_sent")},
           Cardinality(DOMAIN st))

get_pending_url_docs(st, batch_size) == FirstN(st, Ordered(st), batch_size)

\* update_last_sent_timestamp writing nothing.
update_last_sent_timestamp_Noop(st, id, t) == st

update_last_sent_timestamp(st, id, t) ==
    DocMerge(st, id, "last_sent", ServerTimestamp(t))

----------------------------------------------------------------------------
(* Configuration *)

EnvKeys == <<"blogger_api_key", "blog_id", "mail_from", "mail_password", "mail_to">>

\* The environment variable each key of EnvVars is read from.
EnvName(key) ==
    CASE key = "blogger_api_key" -> "BLOGGER_INDEX_REGIST_API_KEY"
      [] key = "blog_id"         -> "BLOG_ID"
      [] key = "mail_from"       -> "MAIL_FROM"
      [] key = "mail_password"   -> "MAIL_PASSWORD"
      [] key = "mail_to"         -> "MAIL_TO"

\* key.upper()
Upper(key) ==
    CASE key = "blogger_api_key" -> "BLOGGER_API_KEY"
      [] key = "blog_id"         -> "BLOG_ID"
      [] key = "mail_from"       -> "MAIL_FROM"
      [] key = "mail_password"   -> "MAIL_PASSWORD"
      [] key = "mail_to"         -> "MAIL_TO"

\* `not value` for value = os.environ.get(name): unset (None) or "".
Falsy(e, name) == name \notin DOMAIN e \/ e[name] = ""

\* get_env_vars testing `value is None` in place of `not value`.
get_env_vars_UnsetOnly(e) ==
    LET bad == {i \in 1..Len(EnvKeys) : EnvName(EnvKeys[i]) \notin DOMAIN e}
    IN  IF bad = {} THEN [ok |-> TRUE, error |-> ""]
        ELSE [ok |-> FALSE,
              error |-> Upper(EnvKeys[CHOOSE i \in bad : \A j \in bad : i <= j])]

\* get_env_vars: the error names the first key, in dict order, without value.
get_env_vars(e) ==
    LET bad == {i \in 1..Len(EnvKeys) : Falsy(e, EnvName(EnvKeys[i]))}
    IN  IF bad = {} THEN [ok |-> TRUE, error |-> ""]
        ELSE [ok |-> FALSE,
              error |-> Upper(EnvKeys[CHOOSE i \in bad : \A j \in bad : i <= j])]

----------------------------------------------------------------------------
(* The URL mirror *)

\* MirrorPost creating a new record without last_sent.
MirrorPost_NoStamp(m, url) ==
    LET id == encode_doc_id(url)
        ts == ServerTimestamp(m.now)
    IN  IF id \in DOMAIN m.store THEN
            IF ~HasField(m.store[id], "last_sent") THEN
                [store  |-> DocMerge(DocMerge(m.store, id, "last_sent", ts),
                                     id, "url", url),
                 now    |-> ts,
                 gets   |-> m.gets + 1,
                 writes |-> m.writes + 2]
            ELSE
                [store  |-> DocMerge(m.store, id, "url", url),
                 now    |-> m.now,
                 gets   |-> m.gets + 1,
                 writes |-> m.writes + 1]
        ELSE
            [store  |-> DocSet(m.store, id, [f \in {"url"} |-> url]),
             now    |-> ts,
             gets   |-> m.gets + 1,
             writes |-> m.writes + 1]

\* The body of register_blog_urls_to_firestore's for loop, for one post.
\* m = [store, now, gets, writes].
MirrorPost(m, url) ==
    LET id == encode_doc_id(url)
        ts == ServerTimestamp(m.now)
    IN  IF id \in DOMAIN m.store THEN
            IF ~HasField(m.store[id], "last_sent") THEN
                [store  |-> DocMerge(DocMerge(m.store, id, "last_sent", ts),
                                     id, "url", url),
                 now    |-> ts,
                 gets   |-> m.gets + 1,
                 writes |-> m.writes + 2]
            ELSE
                [store  |-> DocMerge(m.store, id, "url", url),
                 now    |-> m.now,
                 gets   |-> m.gets + 1,
                 writes |-> m.writes + 1]
        ELSE
            [store  |-> DocSet(m.store, id,
                               [f \in {"url", "last_sent"} |->
                                   IF f = "url" THEN url ELSE ts]),
             now    |-> ts,
             gets   |-> m.gets + 1,
             writes |-> m.writes + 1]

RECURSIVE MirrorPosts(_, _)
MirrorPosts(m, items) ==
    IF items = <<>> THEN m
    ELSE MirrorPosts(MirrorPost(m, Head(items)), Tail(items))

\* posts().list(pageToken=...): the items of the page and whether a
\* nextPageToken comes with it.
PageItems(posts, token) ==
    SubSeq(posts, token * PageSize + 1,
           IF (token + 1) * PageSize < Len(posts)
           THEN (token + 1) * PageSize ELSE Len(posts))

HasNextPage(posts, token) == (token + 1) * PageSize < Len(posts)

----------------------------------------------------------------------------
(* Inputs *)

EnvNames == {EnvName(EnvKeys[i]) : i \in 1..Len(EnvKeys)}

\* Environments in which at most MaxMissing of the five names are unset or
\* set to the empty string.
Envs ==
    {[n \in EnvNames \ ue[1] |-> IF n \in ue[2] THEN "" ELSE "v"] :
        ue \in {x \in (SUBSET EnvNames) \X (SUBSET EnvNames) :
                    /\ x[1] \cap x[2] = {}
                    /\ Cardinality(x[1] \cup x[2]) <= MaxMissing}}

RECURSIVE UrlSeq(_)
UrlSeq(n) == IF n = 0 THEN <<>> ELSE UrlSeq(n - 1) \o <<Url(n)>>

Blogs == {<<>>, <<Url(1), Url(2)>>, <<Url(1), Url(2), Url(1)>>, UrlSeq(NumUrls)}

\* The answers of the indexing API: status code and response text.
Responses ==
    {[status |-> 200, text |-> "{}"],
     [status |-> 204, text |-> ""],
     [status |-> 403, text |-> "quota exceeded"]}

\* Stores left by earlier runs or written by hand: records of u1..uk, of
\* which at most one lacks last_sent or url.
InitMarker(pat, k, i) ==
    CASE pat = "desc" -> k + 1 - i
      [] pat = "tied" -> (i + 1) \div 2

InitData(pat, k, i, defect, kind) ==
    [f \in {"url", "last_sent"} \
           (IF i = defect /\ kind = "nomark" THEN {"last_sent"}
            ELSE IF i = defect /\ kind = "nourl" THEN {"url"} ELSE {}) |->
        IF f = "url" THEN Url(i) ELSE InitMarker(pat, k, i)]

InitStore(pat, k, defect, kind) ==
    [d \in {encode_doc_id(Url(i)) : i \in 1..k} |->
        LET i == CHOOSE j \in 1..k : encode_doc_id(Url(j)) = d
        IN  InitData(pat, k, i, defect, kind)]

InitStores ==
    {InitStore(pat, k, defect, kind) :
        pat \in {"desc", "tied"}, k \in 0..NumUrls,
        defect \in 0..NumUrls, kind \in {"nomark", "nourl"}}

NoResult == [kind |-> "none"]
NoCalls == [content |-> 0, gets |-> 0, writes |-> 0, query |-> 0, index |-> 0]
NoMail == [attempts |-> 0, sent |-> FALSE, has_error |-> FALSE, count |-> 0]
NoLog == [ok |-> {}, failed |-> {}]
NoResponse == [status |-> 0, text |-> ""]

\* Before the first invocation of main.
InitLocals ==
    /\ pc = "Idle"
    /\ runs = 0
    /\ pageToken = 0
    /\ pending = <<>>
    /\ idx = 0
    /\ results = <<>>
    /\ result = NoResult
    /\ calls = NoCalls
    /\ mail = NoMail
    /\ failures = 0
    /\ runStart = 0
    /\ runLog = NoLog
    /\ prevLog = NoLog
    /\ lastOk = [d \in {} |-> 0]
    /\ response = NoResponse
    /\ store0 = store

Init ==
    /\ environ \in Envs
    /\ blog \in Blogs
    /\ store \in InitStores
    /\ now = NumUrls + 1
    /\ InitLocals

----------------------------------------------------------------------------
(* main *)

\* main is invoked (again): its locals are fresh.  Time has passed since the
\* run before.
InvokeUpTo(limit) ==
    /\ pc \in {"Idle", "Done", "Aborted"}
    /\ runs < limit
    /\ pc' = "Configuring"
    /\ runs' = runs + 1
    /\ now' = now + 1
    /\ runStart' = now + 1
    /\ pageToken' = 0
    /\ pending' = <<>>
    /\ idx' = 0
    /\ results' = <<>>
    /\ result' = NoResult
    /\ calls' = NoCalls
    /\ mail' = NoMail
    /\ prevLog' = runLog
    /\ runLog' = NoLog
    /\ response' = NoResponse
    /\ store0' = store
    /\ UNCHANGED <<environ, blog, store, failures, lastOk>>

Invoke == InvokeUpTo(MaxRuns)

\* Configure going on to the selection without the mirror.
Configure_SkipMirror ==
    /\ pc = "Configuring"
    /\ LET r == get_env_vars(environ)
       IN  IF r.ok
           THEN /\ pc' = "Selecting"
                /\ UNCHANGED result
           ELSE /\ pc' = "Done"
                /\ result' = [kind |-> "error", error |-> r.error, code |-> 500]
    /\ UNCHANGED <<environ, blog, store, now, runs, pageToken, pending, idx,
                   results, calls, mail, failures, runStart, runLog, prevLog,
                   lastOk, response, store0>>

\* try: env = get_env_vars() except EnvironmentError: return {"error": ...}, 500
Configure ==
    /\ pc = "Configuring"
    /\ LET r == get_env_vars(environ)
       IN  IF r.ok
           THEN /\ pc' = "Mirroring"
                /\ UNCHANGED result
           ELSE /\ pc' = "Done"
                /\ result' = [kind |-> "error", error |-> r.error, code |-> 500]
    /\ UNCHANGED <<environ, blog, store, now, runs, pageToken, pending, idx,
                   results, calls, mail, failures, runStart, runLog, prevLog,
                   lastOk, response, store0>>

\* One turn of register_blog_urls_to_firestore's while loop: a page is
\* listed and every post of it is registered.
MirrorPage ==
    /\ pc = "Mirroring"
    /\ LET m == MirrorPosts([store |-> store, now |-> now, gets |-> 0, writes |-> 0],
                            PageItems(blog, pageToken))
       IN  /\ store' = m.store
           /\ now' = m.now
           /\ calls' = [calls EXCEPT !.content = @ + 1,
                                     !.gets = @ + m.gets,
                                     !.writes = @ + m.writes]
    /\ IF HasNextPage(blog, pageToken)
       THEN pageToken' = pageToken + 1 /\ pc' = "Mirroring"
       ELSE pageToken' = pageToken /\ pc' = "Selecting"
    /\ UNCHANGED <<environ, blog, runs, pending, idx, results, result, mail,
                   failures, runStart, runLog, prevLog, lastOk, response, store0>>

\* pending_docs = get_pending_url_docs(batch_size=BATCH_SIZE); results = []
Select ==
    /\ pc = "Selecting"
    /\ pending' = get_pending_url_docs(store, BATCH_SIZE)
    /\ idx' = 1
    /\ calls' = [calls EXCEPT !.query = @ + 1]
    /\ pc' = "Notifying"
    /\ UNCHANGED <<environ, blog, store, now, runs, pageToken, results, result,
                   mail, failures, runStart, runLog, prevLog, lastOk, response, store0>>

\* doc.to_dict().get("url"), read from the snapshot; <<>> when there is none.
SnapshotUrl(doc) == IF HasField(doc.data, "url") THEN doc.data["url"] ELSE <<>>

\* The NotificationResult main appends for an answer.
Outcome(url, resp) ==
    IF resp.status = 200
    THEN [url |-> url, status |-> "success", http_status |-> resp.status,
          message |-> "OK"]
    ELSE [url |-> url, status |-> "failed", http_status |-> resp.status,
          message |-> resp.text]

\* StoreAfter stamping the marker whatever the answer.
StoreAfter_Always(st, id, resp, t) == update_last_sent_timestamp(st, id, t)

\* The store after an answer: the marker is stamped on success only.
StoreAfter(st, id, resp, t) ==
    IF resp.status = 200 THEN update_last_sent_timestamp(st, id, t) ELSE st

\* One turn of main's for loop in which the indexing API answers resp.
NotifyUrl(doc, resp) ==
    /\ store' = StoreAfter(store, doc.id, resp, now)
    /\ results' = Append(results, Outcome(SnapshotUrl(doc), resp))
    /\ calls' = [calls EXCEPT !.index = @ + 1]
    /\ now' = (IF resp.status = 200 THEN ServerTimestamp(now) ELSE now)
              + SLEEP_SECONDS
    /\ failures' = IF resp.status = 200 THEN failures ELSE failures + 1
    /\ runLog' = IF resp.status = 200
                 THEN [runLog EXCEPT !.ok = @ \cup {doc.id}]
                 ELSE [runLog EXCEPT !.failed = @ \cup {doc.id}]
    /\ lastOk' = IF resp.status = 200
                 THEN [d \in DOMAIN lastOk \cup {doc.id} |->
                          IF d = doc.id THEN runs ELSE lastOk[d]]
                 ELSE lastOk
    /\ response' = resp
    /\ idx' = idx + 1
    /\ UNCHANGED <<environ, blog, runs, pc, pageToken, pending, result, mail,
                   runStart, prevLog, store0>>

\* One turn of main's for loop on a snapshot without url: `continue`.
SkipDoc ==
    /\ idx' = idx + 1
    /\ UNCHANGED <<environ, blog, store, now, runs, pc, pageToken, pending, results,
                   result, calls, mail, failures, runStart, runLog, prevLog,
                   lastOk, response, store0>>

Notify ==
    /\ pc = "Notifying"
    /\ idx <= Len(pending)
    /\ IF SnapshotUrl(pending[idx]) = <<>>
       THEN SkipDoc
       ELSE \E resp \in Responses :
               /\ resp.status = 200 \/ failures < MaxFailures
               /\ NotifyUrl(pending[idx], resp)

\* The for loop is over: has_error, subject and body_html are computed from
\* results.
Compose ==
    /\ pc = "Notifying"
    /\ idx > Len(pending)
    /\ mail' = [attempts  |-> 0,
                sent      |-> FALSE,
                has_error |-> \E i \in 1..Len(results) :
                                 results[i].status = "failed",
                count     |-> Len(results)]
    /\ pc' = "Reporting"
    /\ UNCHANGED <<environ, blog, store, now, runs, pageToken, pending, idx,
                   results, result, calls, failures, runStart, runLog, prevLog,
                   lastOk, response, store0>>

\* Report letting a failed send decide what main returns.
Report_FailureReturnsError ==
    /\ pc = "Reporting"
    /\ \E sent \in BOOLEAN :
          /\ mail' = [mail EXCEPT !.attempts = @ + 1, !.sent = sent]
          /\ result' = IF sent THEN [kind |-> "results", results |-> results]
                       ELSE [kind |-> "error", error |-> "SMTP", code |-> 500]
    /\ pc' = "Done"
    /\ UNCHANGED <<environ, blog, store, now, runs, pageToken, pending, idx,
                   results, calls, failures, runStart, runLog, prevLog, lastOk,
                   response, store0>>

\* The summary mail and main's return.  The send succeeds or raises; the
\* exception is caught and logged.
Report ==
    /\ pc = "Reporting"
    /\ \E sent \in BOOLEAN :
          mail' = [mail EXCEPT !.attempts = @ + 1, !.sent = sent]
    /\ result' = [kind |-> "results", results |-> results]
    /\ pc' = "Done"
    /\ UNCHANGED <<environ, blog, store, now, runs, pageToken, pending, idx,
                   results, calls, failures, runStart, runLog, prevLog, lastOk,
                   response, store0>>

\* An exception of the content API, the store or the HTTP session is not
\* caught: it leaves main.
Raise ==
    /\ pc \in {"Mirroring", "Selecting", "Notifying"}
    /\ failures < MaxFailures
    /\ failures' = failures + 1
    /\ pc' = "Aborted"
    /\ UNCHANGED <<environ, blog, store, now, runs, pageToken, pending, idx,
                   results, result, calls, mail, runStart, runLog, prevLog,
                   lastOk, response, store0>>

Next ==
    \/ Invoke
    \/ Configure
    \/ MirrorPage
    \/ Select
    \/ Notify
    \/ Compose
    \/ Report
    \/ Raise

Spec == Init /\ [][Next]_vars

----------------------------------------------------------------------------
(* Repeated runs over a fixed set of tracked records, each with url and     *)
(* last_sent, every answer of the indexing API being 200.                   *)

FullEnv == [n \in EnvNames |-> "v"]

OkResponse == [status |-> 200, text |-> "{}"]

InitRotation ==
    /\ environ = FullEnv
    /\ \E n \in 1..NumTracked, pat \in {"desc", "tied"} :
          /\ store = InitStore(pat, n, 0, "nomark")
          /\ blog \in {<<>>, UrlSeq(n)}
    /\ now = NumTracked + 1
    /\ InitLocals

InvokeRotation == InvokeUpTo(MaxRotRuns)

NotifyOk ==
    /\ pc = "Notifying"
    /\ idx <= Len(pending)
    /\ NotifyUrl(pending[idx], OkResponse)

NextRotation ==
    \/ InvokeRotation
    \/ Configure
    \/ MirrorPage
    \/ Select
    \/ NotifyOk
    \/ Compose
    \/ Report

SpecRotation == InitRotation /\ [][NextRotation]_vars

----------------------------------------------------------------------------
(* Properties *)

Marker(st, d) == st[d]["last_sent"]

PendingIds == {pending[i].id : i \in 1..Len(pending)}

Pos(d) == CHOOSE i \in 1..Len(pending) : pending[i].id = d

Unmarked(st) == {d \in DOMAIN st : ~HasField(st[d], "last_sent")}

Marked(st) == {d \in DOMAIN st : HasField(st[d], "last_sent")}

\* The snapshots of pending_docs that have a url, in order.
Attempted == SelectSeq(pending, LAMBDA doc : SnapshotUrl(doc) # <<>>)

\* The step is a turn of main's for loop that called the indexing API.
IndexingCall == pc = "Notifying" /\ calls'.index = calls.index + 1

\* The step is a turn of register_blog_urls_to_firestore's while loop.
MirrorStep == pc = "Mirroring" /\ calls'.content = calls.content + 1

\* C1: when one of the five required settings is unset or empty, the run
\* ends with the error payload and has made no content-API call, no store
\* read or write, no selection query, no indexing-API call and sent no mail.
C1_MissingSettingNoSideEffect ==
    (runs > 0 /\ pc # "Configuring"
        /\ \E n \in EnvNames : n \notin DOMAIN environ \/ environ[n] = "")
    => /\ pc = "Done"
       /\ result.kind = "error"
       /\ result.code = 500
       /\ calls = NoCalls
       /\ mail.attempts = 0
       /\ store = store0

\* Scenario E: the sender credential is missing and the run has returned.
C1_Witness ==
    /\ "MAIL_PASSWORD" \notin DOMAIN environ
    /\ pc = "Done"
    /\ result.kind = "error"
    /\ DOMAIN store # {}

\* What C2 asks of one step of main.
C2_Step ==
    IndexingCall =>
        LET doc == pending[idx]
            o   == results'[Len(results')]
        IN  /\ Len(results') = Len(results) + 1
            /\ IF response'.status = 200
               THEN /\ o = [url |-> SnapshotUrl(doc), status |-> "success",
                            http_status |-> 200, message |-> "OK"]
                    /\ Marker(store', doc.id) > Marker(store, doc.id)
                    /\ Marker(store', doc.id) > runStart
                    /\ \A d \in DOMAIN store \ {doc.id} : store'[d] = store[d]
               ELSE /\ o = [url |-> SnapshotUrl(doc), status |-> "failed",
                            http_status |-> response'.status,
                            message |-> response'.text]
                    /\ store' = store

\* C2: for every URL attempted, a 200 answer overwrites that record's
\* last_sent with a later time and appends {url, success, 200, "OK"}; any
\* other status leaves the store as it was and appends {url, failed, the
\* status, the response text}.
C2_NotifyOutcome == [][C2_Step]_vars

\* Scenarios C and D in one run: a 200 answer and a 403 answer with the body
\* "quota exceeded".
C2_Witness ==
    /\ \E i \in 1..Len(results) : results[i].status = "success"
    /\ \E i \in 1..Len(results) :
          /\ results[i].http_status = 403
          /\ results[i].message = "quota exceeded"

\* C3 (as claimed): in the selection, a record without last_sent comes ahead
\* of every record with one: whenever a marked record is selected, every
\* unmarked record of the store is selected too, and earlier.
C3_AbsentFirst ==
    (pc = "Notifying" /\ idx = 1)
    => \A a \in Unmarked(store), b \in Marked(store) :
          b \in PendingIds => a \in PendingIds /\ Pos(a) < Pos(b)

\* What C4 asks of one step of main.
C4_Step ==
    /\ MirrorStep =>
          \A i \in 1..Len(PageItems(blog, pageToken)) :
             LET u == PageItems(blog, pageToken)[i]
                 d == encode_doc_id(u)
             IN  d \notin DOMAIN store =>
                    /\ d \in DOMAIN store'
                    /\ store'[d]["url"] = u
                    /\ HasField(store'[d], "last_sent")
                    /\ Marker(store', d) > now
                    /\ Marker(store', d) <= now'
    /\ (pc = "Selecting" /\ pc' # "Aborted" /\ store0 = <<>>
            /\ blog = <<Url(1), Url(2)>>) =>
          /\ DOMAIN store = {encode_doc_id(Url(1)), encode_doc_id(Url(2))}
          /\ \A d \in DOMAIN store :
                /\ Marker(store, d) > runStart
                /\ Marker(store, d) <= now
          /\ {pending'[i].id : i \in 1..Len(pending')} = DOMAIN store
          /\ Len(pending') = 2

\* C4: a URL the mirror sees for the first time gets a record with that url
\* and last_sent set to the time of the write; and from an empty store and
\* the one page [u1, u2] the mirror creates exactly two records, both stamped
\* during the run, and the selection that follows returns both.
C4_NewUrlStamped == [][C4_Step]_vars

\* Scenario A after the selection.
C4_Witness ==
    /\ store0 = <<>>
    /\ blog = <<Url(1), Url(2)>>
    /\ Len(pending) = 2
    /\ pc = "Notifying"

\* What C5 asks of one step of main.
C5_Step ==
    MirrorStep =>
        LET items == PageItems(blog, pageToken)
            again == MirrorPosts([store |-> store', now |-> now',
                                  gets |-> 0, writes |-> 0], items)
        IN  /\ \A i \in 1..Len(items) :
                  /\ encode_doc_id(items[i]) \in DOMAIN store'
                  /\ {d \in DOMAIN store' :
                         HasField(store'[d], "url") /\ store'[d]["url"] = items[i]}
                       = {encode_doc_id(items[i])}
            /\ DOMAIN store' =
                  DOMAIN store \cup {encode_doc_id(items[i]) : i \in 1..Len(items)}
            /\ \A d \in Marked(store) :
                  /\ HasField(store'[d], "last_sent")
                  /\ Marker(store', d) = Marker(store, d)
            /\ \A d \in DOMAIN store :
                  d \notin {encode_doc_id(items[i]) : i \in 1..Len(items)}
                     => store'[d] = store[d]
            /\ again.store = store'

\* C5: the mirror is an idempotent upsert.  After a page is mirrored every
\* URL of the page has exactly one record carrying it, the one under its
\* identifier; no record is deleted; a last_sent already present is not
\* changed; only the identifiers of the page's URLs are added; and mirroring
\* the page once more changes nothing in the store.
C5_MirrorIdempotentUpsert == [][C5_Step]_vars

\* The blog lists u1 twice; the second run has mirrored it again.
C5_Witness ==
    /\ blog = <<Url(1), Url(2), Url(1)>>
    /\ runs = 2
    /\ pc = "Selecting"
    /\ Cardinality(DOMAIN store) > 2

\* C6: a record whose notification failed in a run is as the selection read
\* it (its last_sent untouched), and the next run selects it again, ahead of
\* every record the earlier run notified with success.
C6_FailedRetriedFirst ==
    /\ \A i \in 1..Len(pending) :
          pending[i].id \in runLog.failed => store[pending[i].id] = pending[i].data
    /\ (runs > 1 /\ calls.query = 1) =>
          \A f \in prevLog.failed :
             /\ f \in PendingIds
             /\ \A g \in prevLog.ok : g \in PendingIds => Pos(f) < Pos(g)

\* The second run has selected a record that failed in the first, after the
\* first had also notified another record, selected again, with success.
C6_Witness ==
    /\ runs = 2
    /\ calls.query = 1
    /\ prevLog.failed # {}
    /\ \E g \in prevLog.ok, f \in prevLog.failed :
          /\ g \in PendingIds
          /\ Pos(g) > Pos(f)
          /\ Marker(store0, g) > Marker(store0, f)

Rank(p) ==
    CASE p = "Idle"        -> 0
      [] p = "Configuring" -> 1
      [] p = "Mirroring"   -> 2
      [] p = "Selecting"   -> 3
      [] p = "Notifying"   -> 4
      [] p = "Reporting"   -> 5
      [] p = "Done"        -> 6
      [] p = "Aborted"     -> 7

\* What C7 asks of one step of main.
C7_Step ==
    /\ pc' # pc =>
          \/ pc' = "Configuring" /\ pc \in {"Idle", "Done", "Aborted"}
          \/ pc' = "Aborted" /\ pc \in {"Mirroring", "Selecting", "Notifying"}
          \/ pc' \notin {"Configuring", "Aborted"} /\ Rank(pc') = Rank(pc) + 1
          \/ pc = "Configuring" /\ pc' = "Done" /\ result'.kind = "error"
    /\ (pc' # "Configuring" /\ <<calls'.content, calls'.gets, calls'.writes>>
                                  # <<calls.content, calls.gets, calls.writes>>)
          => pc = "Mirroring" /\ calls.query = 0 /\ calls.index = 0
                /\ mail.attempts = 0
    /\ (pc' # "Configuring" /\ calls'.query # calls.query)
          => pc = "Selecting" /\ calls.query = 0 /\ calls.index = 0
                /\ mail.attempts = 0
    /\ (pc' # "Configuring" /\ calls'.index # calls.index)
          => pc = "Notifying" /\ calls.query = 1 /\ mail.attempts = 0
    /\ store' # store => pc \in {"Mirroring", "Notifying"}
    /\ mail'.attempts # mail.attempts /\ pc' # "Configuring"
          => pc = "Reporting" /\ pc' = "Done" /\ mail.attempts = 0
    /\ (pc' = "Done" /\ result'.kind = "results")
          => calls'.content >= 1 /\ calls'.query = 1 /\ mail'.attempts = 1
                /\ calls'.index = Len(results')

\* C7: within a run the phases only advance, in the order Configuring,
\* Mirroring, Selecting, Notifying, Reporting, Done; a run begins in
\* Configuring; content-API calls and mirror reads and writes happen in
\* Mirroring, before the selection query; the one query happens in Selecting,
\* before any indexing-API call; indexing-API calls and marker updates happen
\* in Notifying, before the mail; the mail is sent once, in Reporting, as the
\* run ends; and a run that returns results has been through every phase.
C7_PhasesInOrder == [][C7_Step]_vars

\* A run that listed two pages, called the indexing API twice and returned.
C7_Witness ==
    /\ pc = "Done"
    /\ result.kind = "results"
    /\ calls.content >= 2
    /\ calls.index >= 2
    /\ mail.attempts = 1

\* What C8 asks of one step of main.
C8_Step ==
    pc = "Reporting" =>
        /\ pc' = "Done"
        /\ result' = [kind |-> "results", results |-> results]
        /\ results' = results
        /\ store' = store
        /\ mail'.attempts = 1

\* C8: the report step returns {"results": results} and leaves the store as
\* it is, makes one send and no second one, whether the send succeeds or
\* raises.
C8_MailFailureSwallowed == [][C8_Step]_vars

\* The send raised after a batch with a stamped marker.
C8_Witness ==
    /\ pc = "Done"
    /\ mail.attempts = 1
    /\ ~mail.sent
    /\ result.kind = "results"
    /\ \E i \in 1..Len(result.results) : result.results[i].status = "success"

\* C9: the notifier calls the indexing API once for each selected record
\* that has a url, in the order of the selection, at most BATCH_SIZE times;
\* the results list has one outcome per call, in the same order; a non-200
\* answer does not end the loop.
C9_OneCallPerSelected ==
    /\ Len(pending) <= BATCH_SIZE
    /\ calls.index <= BATCH_SIZE
    /\ pc \in {"Notifying", "Reporting", "Done"} /\ result.kind # "error" =>
          /\ calls.index = Len(results)
          /\ Len(results) <= Len(Attempted)
          /\ \A i \in 1..Len(results) : results[i].url = SnapshotUrl(Attempted[i])
    /\ pc \in {"Reporting", "Done"} /\ result.kind # "error" =>
          Len(results) = Len(Attempted)

\* More records than BATCH_SIZE, a full batch, a failure before its end.
C9_Witness ==
    /\ pc = "Done"
    /\ Cardinality(Marked(store)) > BATCH_SIZE
    /\ Len(results) = BATCH_SIZE
    /\ \E i \in 1..(BATCH_SIZE - 1) : results[i].status = "failed"
    /\ results[BATCH_SIZE].status = "success"

\* The number of runs that covers n records: ceil(n / BATCH_SIZE).
RunsToCover(n) == (n + BATCH_SIZE - 1) \div BATCH_SIZE

\* C10: with a fixed set of records, each with url and last_sent, and every
\* answer 200, at the end of every run each record has been notified in one
\* of the latest ceil(N / BATCH_SIZE) runs.
C10_Rotation ==
    LET k == RunsToCover(Cardinality(DOMAIN store))
    IN  (pc = "Done" /\ runs >= k) =>
           \A d \in DOMAIN store :
              /\ d \in DOMAIN lastOk
              /\ lastOk[d] > runs - k

\* Eleven records need three runs; the fourth run has ended and some record
\* was last notified two runs ago.
C10_Witness ==
    /\ pc = "Done"
    /\ RunsToCover(Cardinality(DOMAIN store)) = 3
    /\ runs = 4
    /\ \E d \in DOMAIN store : lastOk[d] = 2

====
